---- MODULE Spec2Model ----
(***************************************************************************)
(* Single-tape Turing machine simulator.                                   *)
(*   tm    : turing_gui_advanced.TuringMachine, the interactive engine     *)
(*           with the snapshot/undo history                                *)
(*   batch : main.TuringMachine, the batch engine with run(max_steps)      *)
(* Python return values are modelled as the strings "True", "False" and    *)
(* "None".                                                                 *)
(***************************************************************************)
EXTENDS Integers, Sequences, FiniteSets, TLC

VARIABLES
    machine,  \* name of the machine description the engines were built from
    input,    \* the input string last written on the tape
    tm,       \* the interactive engine
    pre,      \* tm before the most recent step() call (kept through an
              \* undo() that directly follows that step)
    op0, op,  \* the last two calls made on tm
    ret,      \* what the last call on tm returned
    calls,    \* what each step() call that took a snapshot returned, the
              \* calls cancelled by an undo() removed (newest last)
    batch,    \* the batch engine
    bpre,     \* batch before the last call made on it
    bop,      \* the last call made on batch
    budget,   \* max_steps of the last run
    result,   \* what the last call on batch returned
    view,     \* what tape_str_window last returned for batch as it is now
    pending,  \* number of scheduled (root.after) calls of GUI.run
    button    \* the button the user pressed last

vars ==
    <<machine, input, tm, pre, op0, op, ret, calls,
      batch, bpre, bop, budget, result, view, pending, button>>

tmVars == <<tm, pre, op0, op, ret, calls>>
batchVars == <<batch, bpre, bop, budget, result, view>>
guiVars == <<pending, button>>

(* ---------------------------- bounds ---------------------------------- *)

\* longest input string written on the tape
MaxLen == 4
\* cap of the step counters (only the machine that never halts reaches it)
StepBound == 30
\* largest max_steps handed to run
MaxBudget == 8
\* largest padding asked of tape_str_window
MaxPadding == 2
\* longest input text typed with characters outside the input alphabet
MaxRaw == 2
\* most run callbacks waiting in the event loop at once
MaxPending == 2

(* ------------------------ machine descriptions ------------------------- *)

Blank == "_"

None == "None"

\* a plausible slip: the rule for '0' in q_even written with direction 'N'
EvenOnesStays ==
    [initial |-> "q_even", final |-> {"q_accept"}, alphabet |-> {"0", "1"},
     transitions |->
        (<<"q_even", "1">> :> <<"q_odd", "1", "R">>) @@
        (<<"q_even", "0">> :> <<"q_even", "0", "N">>) @@
        (<<"q_even", "_">> :> <<"q_accept", "_", "N">>) @@
        (<<"q_odd", "1">> :> <<"q_even", "1", "R">>) @@
        (<<"q_odd", "0">> :> <<"q_odd", "0", "R">>) @@
        (<<"q_odd", "_">> :> <<"q_reject", "_", "N">>)]

EvenOnes ==
    [initial |-> "q_even", final |-> {"q_accept"}, alphabet |-> {"0", "1"},
     transitions |->
        (<<"q_even", "1">> :> <<"q_odd", "1", "R">>) @@
        (<<"q_even", "0">> :> <<"q_even", "0", "R">>) @@
        (<<"q_even", "_">> :> <<"q_accept", "_", "N">>) @@
        (<<"q_odd", "1">> :> <<"q_even", "1", "R">>) @@
        (<<"q_odd", "0">> :> <<"q_odd", "0", "R">>) @@
        (<<"q_odd", "_">> :> <<"q_reject", "_", "N">>)]

AnBn ==
    [initial |-> "q0", final |-> {"q_accept"}, alphabet |-> {"a", "b"},
     transitions |->
        (<<"q0", "a">> :> <<"q1", "X", "R">>) @@
        (<<"q0", "Y">> :> <<"q0", "Y", "R">>) @@
        (<<"q0", "_">> :> <<"q_accept", "_", "N">>) @@
        (<<"q1", "a">> :> <<"q1", "a", "R">>) @@
        (<<"q1", "Y">> :> <<"q1", "Y", "R">>) @@
        (<<"q1", "b">> :> <<"q2", "Y", "L">>) @@
        (<<"q2", "a">> :> <<"q2", "a", "L">>) @@
        (<<"q2", "Y">> :> <<"q2", "Y", "L">>) @@
        (<<"q2", "X">> :> <<"q0", "X", "R">>)]

\* A caller-supplied description whose initial state is accepting and has
\* outgoing rules; it erases the 1s it reads (writes the blank symbol).
Eraser ==
    [initial |-> "p0", final |-> {"p0"}, alphabet |-> {"1"},
     transitions |->
        (<<"p0", "1">> :> <<"p1", "_", "R">>) @@
        (<<"p1", "1">> :> <<"p0", "_", "R">>)]

\* A caller-supplied description that never halts: it walks left for ever,
\* writing 1s on the cells it leaves (negative tape positions).
Walker ==
    [initial |-> "w0", final |-> {"w_done"}, alphabet |-> {"1"},
     transitions |->
        (<<"w0", "1">> :> <<"w0", "1", "L">>) @@
        (<<"w0", "_">> :> <<"w0", "1", "L">>)]

\* the descriptions an engine is constructed from: the two of the MACHINES
\* registry and the two caller-supplied ones
Descriptions ==
    ("Even number of 1s" :> EvenOnes) @@ ("a^n b^n" :> AnBn) @@
    ("eraser" :> Eraser) @@ ("walker" :> Walker)

MachineNames == DOMAIN Descriptions

\* the registry the window's option menu offers
MACHINES == {"Even number of 1s", "a^n b^n"}

\* The full argument list of main.TuringMachine: states, input_symbols,
\* tape_symbols, transitions, initial_state, final_states (blank_symbol is
\* Blank throughout).  The first is the description main.py builds.
Parity ==
    [states |-> {"q_even", "q_odd", "q_accept", "q_reject"},
     alphabet |-> {"0", "1"}, tape_symbols |-> {"0", "1", "_"},
     initial |-> "q_even", final |-> {"q_accept"},
     transitions |-> EvenOnes.transitions]

\* a caller-supplied description with a direction that is none of R, L, N
Sideways ==
    [states |-> {"s0", "s1", "s_done"},
     alphabet |-> {"1"}, tape_symbols |-> {"1", "_"},
     initial |-> "s0", final |-> {"s_done"},
     transitions |->
        (<<"s0", "1">> :> <<"s1", "_", "S">>) @@
        (<<"s0", "_">> :> <<"s_done", "_", "N">>) @@
        (<<"s1", "1">> :> <<"s0", "1", "R">>) @@
        (<<"s1", "_">> :> <<"s0", "_", "R">>)]

\* a caller-supplied description whose rule leads to a state outside
\* states, writes a symbol outside tape_symbols, and whose final state is
\* not one of states
Stray ==
    [states |-> {"t0", "t1"},
     alphabet |-> {"1"}, tape_symbols |-> {"1", "_"},
     initial |-> "t0", final |-> {"t_end"},
     transitions |->
        (<<"t0", "1">> :> <<"t_lost", "#", "R">>) @@
        (<<"t0", "_">> :> <<"t1", "_", "R">>) @@
        (<<"t_lost", "1">> :> <<"t_end", "1", "N">>)]

\* what callers hand to main.TuringMachine(...): nothing is checked
Unchecked ==
    ("parity" :> Parity) @@ ("sideways" :> Sideways) @@ ("stray" :> Stray)

UncheckedNames == DOMAIN Unchecked

AllDescriptions == Descriptions @@ Unchecked

Transitions(m) == AllDescriptions[m].transitions
InitialState(m) == AllDescriptions[m].initial
FinalStates(m) == AllDescriptions[m].final
Alphabet(m) == AllDescriptions[m].alphabet

\* The text of the input field / tape_input: not validated against the
\* input alphabet, so the blank character can be typed too.
InputChars(m) == Alphabet(m) \cup {Blank}

Inputs(m) ==
    (UNION {[1..n -> Alphabet(m)] : n \in 0..MaxLen}) \cup
    (UNION {[1..n -> InputChars(m)] : n \in 0..MaxRaw})

\* {i: c for i, c in enumerate(tape_input)}
TapeOf(s) == [i \in 0..(Len(s) - 1) |-> s[i + 1]]

(* --------------- turing_gui_advanced.TuringMachine --------------------- *)

snapshot(t) ==
    [state |-> t.state, tape |-> t.tape, head |-> t.head,
     steps |-> t.steps, halted |-> t.halted, accepted |-> t.accepted]

\* a plausible slip: restore() that leaves the head where it is
restoreKeepsHead(t, snap) ==
    [t EXCEPT !.state = snap.state, !.tape = snap.tape,
              !.steps = snap.steps, !.halted = snap.halted,
              !.accepted = snap.accepted]

restore(t, snap) ==
    [t EXCEPT !.state = snap.state, !.tape = snap.tape, !.head = snap.head,
              !.steps = snap.steps, !.halted = snap.halted,
              !.accepted = snap.accepted]

\* a plausible slip: reset() without history.clear()
resetKeepsHistory(m, t, tape_input) ==
    [t EXCEPT !.state = InitialState(m), !.tape = TapeOf(tape_input),
              !.head = 0, !.steps = 0, !.halted = FALSE,
              !.accepted = FALSE]

reset(m, t, tape_input) ==
    [t EXCEPT !.state = InitialState(m), !.tape = TapeOf(tape_input),
              !.head = 0, !.steps = 0, !.halted = FALSE,
              !.accepted = FALSE, !.history = <<>>]

\* __init__: the fields do not exist before reset("") assigns them
Construct(m) ==
    reset(m, [state |-> None, tape |-> <<>>, head |-> 0, steps |-> 0,
              halted |-> FALSE, accepted |-> FALSE, history |-> <<>>], <<>>)

read(t) == IF t.head \in DOMAIN t.tape THEN t.tape[t.head] ELSE Blank

write(t, sym) ==
    IF sym = Blank
    THEN [t EXCEPT !.tape = [i \in (DOMAIN t.tape) \ {t.head} |-> t.tape[i]]]
    ELSE [t EXCEPT !.tape = [i \in (DOMAIN t.tape) \cup {t.head} |->
                                IF i = t.head THEN sym ELSE t.tape[i]]]

\* a plausible slip: a move that forgets the 'L' branch
moveOnlyRight(t, mv) ==
    IF mv = "R" THEN [t EXCEPT !.head = @ + 1]
    ELSE t

move(t, mv) ==
    IF mv = "R" THEN [t EXCEPT !.head = @ + 1]
    ELSE IF mv = "L" THEN [t EXCEPT !.head = @ - 1]
    ELSE t

HasRule(m, t) == <<t.state, read(t)>> \in DOMAIN Transitions(m)

\* a plausible slip: a halt on a missing rule that counts as a step
haltCountsStep(m, t) ==
    [t EXCEPT !.halted = TRUE, !.accepted = (t.state \in FinalStates(m)),
              !.steps = @ + 1]

\* no rule for (state, symbol): halt, accepting iff the state is final
halt(m, t) ==
    [t EXCEPT !.halted = TRUE, !.accepted = (t.state \in FinalStates(m))]

\* the check made after an applied transition
enter(m, t) ==
    IF t.state \in FinalStates(m)
    THEN [t EXCEPT !.halted = TRUE, !.accepted = TRUE]
    ELSE t

\* a plausible slip: the snapshot pushed after the transition is applied
stepSnapshotsLate(m, t) ==
    IF t.halted THEN [tm |-> t, ret |-> "False"]
    ELSE
      LET key == <<t.state, read(t)>>
      IN  IF key \notin DOMAIN Transitions(m)
          THEN [tm |-> halt(m, [t EXCEPT !.history = Append(@, snapshot(t))]),
                ret |-> "False"]
          ELSE
            LET rule == Transitions(m)[key]
                w == write(t, rule[2])
                s == [w EXCEPT !.state = rule[1]]
                v == move(s, rule[3])
                c == [v EXCEPT !.steps = @ + 1]
                h == [c EXCEPT !.history = Append(@, snapshot(c))]
            IN  [tm |-> enter(m, h), ret |-> "True"]

\* a plausible slip: step() without the test of self.halted
stepIgnoresHalted(m, t) ==
    LET h == [t EXCEPT !.history = Append(@, snapshot(t))]
        key == <<h.state, read(h)>>
    IN  IF key \notin DOMAIN Transitions(m)
        THEN [tm |-> halt(m, h), ret |-> "False"]
        ELSE
          LET rule == Transitions(m)[key]
              w == write(h, rule[2])
              s == [w EXCEPT !.state = rule[1]]
              v == move(s, rule[3])
              c == [v EXCEPT !.steps = @ + 1]
          IN  [tm |-> enter(m, c), ret |-> "True"]

step(m, t) ==
    IF t.halted THEN [tm |-> t, ret |-> "False"]
    ELSE
      LET h == [t EXCEPT !.history = Append(@, snapshot(t))]
          key == <<h.state, read(h)>>
      IN  IF key \notin DOMAIN Transitions(m)
          THEN [tm |-> halt(m, h), ret |-> "False"]
          ELSE
            LET rule == Transitions(m)[key]
                w == write(h, rule[2])
                s == [w EXCEPT !.state = rule[1]]
                v == move(s, rule[3])
                c == [v EXCEPT !.steps = @ + 1]
            IN  [tm |-> enter(m, c), ret |-> "True"]

\* a plausible slip: history.pop(0), the oldest snapshot instead of the
\* newest
undoRestoresOldest(t) ==
    IF t.history # <<>>
    THEN [tm |-> [restore(t, t.history[1])
                    EXCEPT !.history = SubSeq(t.history, 2, Len(t.history))],
          ret |-> None]
    ELSE [tm |-> t, ret |-> None]

undo(t) ==
    IF t.history # <<>>
    THEN [tm |-> [restore(t, t.history[Len(t.history)])
                    EXCEPT !.history = SubSeq(t.history, 1, Len(t.history) - 1)],
          ret |-> None]
    ELSE [tm |-> t, ret |-> None]

(* ------------------------- main.TuringMachine -------------------------- *)

\* a plausible slip: the input written from position 1 on
MainConstructFromOne(m, tape_input) ==
    [state |-> InitialState(m),
     tape |-> [i \in 1..Len(tape_input) |-> tape_input[i]],
     head |-> 0, step_count |-> 0]

MainConstruct(m, tape_input) ==
    [state |-> InitialState(m), tape |-> TapeOf(tape_input),
     head |-> 0, step_count |-> 0]

MainRead(b, position) ==
    IF position \in DOMAIN b.tape THEN b.tape[position] ELSE Blank

MainWrite(b, position, symbol) ==
    IF symbol = Blank
    THEN [b EXCEPT !.tape = [i \in (DOMAIN b.tape) \ {position} |-> b.tape[i]]]
    ELSE [b EXCEPT !.tape = [i \in (DOMAIN b.tape) \cup {position} |->
                                IF i = position THEN symbol ELSE b.tape[i]]]

current_symbol(b) == MainRead(b, b.head)

MainHasRule(m, b) == <<b.state, current_symbol(b)>> \in DOMAIN Transitions(m)

\* ret is "True", "False", or "ValueError" when the direction is none of
\* R, L, N (raised after the write and the state change, before step_count)
MainStep(m, b) ==
    LET key == <<b.state, current_symbol(b)>>
    IN  IF key \notin DOMAIN Transitions(m)
        THEN [tm |-> b, ret |-> "False"]
        ELSE
          LET rule == Transitions(m)[key]
              w == MainWrite(b, b.head, rule[2])
              s == [w EXCEPT !.state = rule[1]]
          IN  IF rule[3] = "R"
              THEN [tm |-> [s EXCEPT !.head = @ + 1, !.step_count = @ + 1],
                    ret |-> "True"]
              ELSE IF rule[3] = "L"
              THEN [tm |-> [s EXCEPT !.head = @ - 1, !.step_count = @ + 1],
                    ret |-> "True"]
              ELSE IF rule[3] = "N"
              THEN [tm |-> [s EXCEPT !.step_count = @ + 1], ret |-> "True"]
              ELSE [tm |-> s, ret |-> "ValueError"]

\* a plausible slip: the loop written as range(max_steps + 1)
RECURSIVE MainRunOneMore(_, _, _)
MainRunOneMore(m, b, n) ==
    IF n = 0 - 1 THEN [tm |-> b, ret |-> <<"False", None>>]
    ELSE IF b.state \in FinalStates(m)
    THEN [tm |-> b, ret |-> <<"True", b.state>>]
    ELSE
      LET r == MainStep(m, b)
      IN  IF r.ret = "ValueError" THEN [tm |-> r.tm, ret |-> <<"ValueError", None>>]
          ELSE IF r.ret = "False" THEN [tm |-> r.tm, ret |-> <<"False", r.tm.state>>]
          ELSE MainRunOneMore(m, r.tm, n - 1)

\* run(max_steps): ret is the returned pair (accepted, final state or None)
RECURSIVE MainRun(_, _, _)
MainRun(m, b, n) ==
    IF n = 0 THEN [tm |-> b, ret |-> <<"False", None>>]
    ELSE IF b.state \in FinalStates(m)
    THEN [tm |-> b, ret |-> <<"True", b.state>>]
    ELSE
      LET r == MainStep(m, b)
      IN  IF r.ret = "ValueError" THEN [tm |-> r.tm, ret |-> <<"ValueError", None>>]
          ELSE IF r.ret = "False" THEN [tm |-> r.tm, ret |-> <<"False", r.tm.state>>]
          ELSE MainRun(m, r.tm, n - 1)

\* no window taken since the engine last changed
NoWindow == [tape_str |-> <<>>, head_pos |-> 0 - 1, padding |-> 0 - 1]

Min(a, b) == IF a <= b THEN a ELSE b
Max(a, b) == IF a >= b THEN a ELSE b
MinOf(S) == CHOOSE x \in S : \A y \in S : x <= y
MaxOf(S) == CHOOSE x \in S : \A y \in S : x >= y

\* the characters of a tape symbol: every symbol of the descriptions and
\* every input character is a string of length one
Chars(symbol) == <<symbol>>

\* ''.join(cells)
RECURSIVE Join(_)
Join(cells) ==
    IF cells = <<>> THEN <<>>
    ELSE Chars(cells[1]) \o Join(SubSeq(cells, 2, Len(cells)))

\* a plausible slip: the head offset taken from min_idx, not from left
tape_str_windowNoPadding(b, padding) ==
    LET keys == DOMAIN b.tape
        min_idx == IF keys # {} THEN Min(MinOf(keys), b.head) ELSE Min(0, b.head)
        max_idx == IF keys # {} THEN Max(MaxOf(keys), b.head) ELSE Max(0, b.head)
        left == min_idx - padding
        right == max_idx + padding
        cells == [k \in 1..(right - left + 1) |-> MainRead(b, left + k - 1)]
    IN  [tape_str |-> Join(cells), head_pos |-> b.head - min_idx,
         padding |-> padding]

\* tape_str_window(padding): the returned pair (tape_str, head offset),
\* tape_str as the sequence of its characters, with the padding it was
\* asked for
tape_str_window(b, padding) ==
    LET keys == DOMAIN b.tape
        min_idx == IF keys # {} THEN Min(MinOf(keys), b.head) ELSE Min(0, b.head)
        max_idx == IF keys # {} THEN Max(MaxOf(keys), b.head) ELSE Max(0, b.head)
        left == min_idx - padding
        right == max_idx + padding
        cells == [k \in 1..(right - left + 1) |-> MainRead(b, left + k - 1)]
    IN  [tape_str |-> Join(cells), head_pos |-> b.head - left,
         padding |-> padding]

(* ------------------------------ actions -------------------------------- *)

InitGhosts ==
    /\ op0 = "init"
    /\ op = "init"
    /\ ret = None
    /\ bop = "init"
    /\ budget = 0
    /\ result = None
    /\ calls = <<>>
    /\ view = NoWindow
    /\ pending = 0
    /\ button = "none"

InitCommon ==
    /\ machine \in MachineNames
    /\ InitGhosts

\* the interactive engine right after construction (empty tape)
Init ==
    /\ InitCommon
    /\ input = <<>>
    /\ tm = Construct(machine)
    /\ pre = tm
    /\ batch = MainConstruct(machine, <<>>)
    /\ bpre = batch

\* tm.reset(s)
CallReset(s) ==
    /\ input' = s
    /\ tm' = reset(machine, tm, s)
    /\ pre' = tm'
    /\ op0' = op
    /\ op' = "reset"
    /\ ret' = None
    /\ calls' = <<>>
    /\ UNCHANGED <<machine, batchVars>>

\* tm.step()
CallStep ==
    /\ tm.steps < StepBound
    /\ LET r == step(machine, tm)
       IN  /\ tm' = r.tm
           /\ ret' = r.ret
           /\ calls' = IF tm.halted THEN calls ELSE Append(calls, r.ret)
    /\ pre' = tm
    /\ op0' = op
    /\ op' = "step"
    /\ UNCHANGED <<machine, input, batchVars>>

\* tm.undo()
CallUndo ==
    /\ LET r == undo(tm)
       IN  /\ tm' = r.tm
           /\ ret' = r.ret
    /\ calls' = IF calls = <<>> THEN calls
                ELSE SubSeq(calls, 1, Len(calls) - 1)
    /\ pre' = IF op = "step" THEN pre ELSE tm'
    /\ op0' = op
    /\ op' = "undo"
    /\ UNCHANGED <<machine, input, batchVars>>

Reset == (\E s \in Inputs(machine) : CallReset(s)) /\ UNCHANGED guiVars

Step == CallStep /\ UNCHANGED guiVars

Undo == CallUndo /\ UNCHANGED guiVars

Next == Reset \/ Step \/ Undo

Spec == Init /\ [][Next]_vars

(* The window: its four buttons, the machine menu and the timer callbacks *)
(* that run() schedules with root.after.  The event loop runs one handler *)
(* at a time, each to completion.                                         *)

InitGui ==
    /\ Init
    /\ machine \in MACHINES

\* GUI.reset: the Reset button, with whatever text the input field holds
GuiReset ==
    /\ \E s \in Inputs(machine) : CallReset(s)
    /\ button' = "reset"
    /\ UNCHANGED pending

\* GUI.change_machine: a choice in the machine menu builds a new engine
\* (load_machine) and resets it on the text of the input field
ChangeMachine ==
    /\ \E m \in MACHINES : \E s \in Inputs(m) :
          /\ machine' = m
          /\ input' = s
          /\ tm' = reset(m, Construct(m), s)
    /\ pre' = tm'
    /\ op0' = op
    /\ op' = "reset"
    /\ ret' = None
    /\ calls' = <<>>
    /\ button' = "menu"
    /\ UNCHANGED <<pending, batchVars>>

\* GUI.step: the Step button
GuiStep ==
    /\ CallStep
    /\ button' = "step"
    /\ UNCHANGED pending

\* GUI.undo: the Undo button
GuiUndo ==
    /\ CallUndo
    /\ button' = "undo"
    /\ UNCHANGED pending

\* the body of GUI.run: one step and one more callback scheduled, unless
\* the engine is halted
run(scheduled) ==
    IF tm.halted
    THEN /\ pending' = scheduled
         /\ UNCHANGED <<machine, input, tmVars, batchVars>>
    ELSE /\ CallStep
         /\ pending' = scheduled + 1

\* GUI.run called by the Run button
GuiRun ==
    /\ pending < MaxPending
    /\ run(pending)
    /\ button' = "run"

\* GUI.run called by the event loop when a scheduled callback is due
Tick ==
    /\ pending > 0
    /\ run(pending - 1)
    /\ UNCHANGED button

NextGui == ChangeMachine \/ GuiReset \/ GuiStep \/ GuiUndo \/ GuiRun \/ Tick

SpecGui == InitGui /\ [][NextGui]_vars

(* The batch engine: constructed on an input, then stepped and run.        *)

InitBatch ==
    /\ InitCommon
    /\ input \in Inputs(machine)
    /\ batch = MainConstruct(machine, input)
    /\ bpre = batch
    /\ tm = Construct(machine)
    /\ pre = tm

BStep ==
    /\ batch.step_count < StepBound
    /\ LET r == MainStep(machine, batch)
       IN  /\ batch' = r.tm
           /\ result' = r.ret
    /\ bpre' = batch
    /\ bop' = "step"
    /\ budget' = 0
    /\ view' = NoWindow
    /\ UNCHANGED <<machine, input, tmVars, guiVars>>

Run(n) ==
    /\ batch.step_count + n <= StepBound
    /\ LET r == MainRun(machine, batch, n)
       IN  /\ batch' = r.tm
           /\ result' = r.ret
    /\ bpre' = batch
    /\ bop' = "run"
    /\ budget' = n
    /\ view' = NoWindow
    /\ UNCHANGED <<machine, input, tmVars, guiVars>>

BRun == \E n \in 0..MaxBudget : Run(n)

\* tape_str_window(padding): changes nothing of the engine
Window ==
    /\ \E padding \in 0..MaxPadding : view' = tape_str_window(batch, padding)
    /\ UNCHANGED <<machine, input, tmVars, guiVars,
                   batch, bpre, bop, budget, result>>

NextBatch == BStep \/ BRun

SpecBatch == InitBatch /\ [][NextBatch]_vars

(* The batch engine stepped, with windows of its tape taken in between.   *)

NextWindow == BStep \/ Window

SpecWindow == InitBatch /\ [][NextWindow]_vars

(* The batch engine constructed from whatever description the caller     *)
(* hands over, then stepped and run.                                       *)

InitRaw ==
    /\ machine \in UncheckedNames
    /\ InitGhosts
    /\ input \in Inputs(machine)
    /\ batch = MainConstruct(machine, input)
    /\ bpre = batch
    /\ tm = Construct(machine)
    /\ pre = tm

NextRaw == BStep \/ BRun

SpecRaw == InitRaw /\ [][NextRaw]_vars

(* Both engines built from the same description and input: the            *)
(* interactive one is stepped until it halts, the batch one is run once   *)
(* with a budget no halting run of these machines exceeds.                *)

InitBoth ==
    /\ InitCommon
    /\ input \in Inputs(machine)
    /\ tm = reset(machine, Construct(machine), input)
    /\ pre = tm
    /\ batch = MainConstruct(machine, input)
    /\ bpre = batch

StepOn == ~tm.halted /\ Step

RunOnce == bop = "init" /\ Run(StepBound)

NextBoth == StepOn \/ RunOnce

SpecBoth == InitBoth /\ [][NextBoth]_vars

\* The same with the stepping kept going: GUI.run re-schedules itself after
\* every step for as long as the engine is not halted, and the event loop
\* fires every scheduled callback.
SpecBothFair == SpecBoth /\ WF_vars(StepOn)

(* ------------------------------ properties ----------------------------- *)

\* every tape position a run within the bounds can touch
Positions == (0 - (StepBound + 1))..(MaxLen + StepBound + 1)

\* what each position of a tape store reads as
Contents(tape) ==
    [p \in Positions |-> IF p \in DOMAIN tape THEN tape[p] ELSE Blank]

Observable(t) == <<t.state, t.head, t.steps, Contents(t.tape)>>

OverAlphabet(s, m) == \A i \in 1..Len(s) : s[i] \in Alphabet(m)

\* t halted because an applied transition entered a final state (the
\* snapshot below it was taken one applied transition earlier)
HaltedByEntering(t) ==
    /\ t.halted
    /\ t.history # <<>>
    /\ t.history[Len(t.history)].steps # t.steps

\* C1 as stated: for any configuration x with a non-empty history, step()
\* followed by undo() restores state, head, step count and every tape
\* position of x.
C1_RoundTripAnyConfiguration ==
    (op0 = "step" /\ op = "undo" /\ pre.history # <<>>)
        => Observable(tm) = Observable(pre)

\* C1 amended: for any configuration x with a non-empty history that is
\* running or halted on a missing rule (not halted by a transition into a
\* final state), step() followed by undo() restores state, head, step count
\* and every tape position of x.
C1_RoundTrip ==
    (op0 = "step" /\ op = "undo" /\ pre.history # <<>> /\ ~HaltedByEntering(pre))
        => Observable(tm) = Observable(pre)

C1_Witness ==
    /\ op0 = "step" /\ op = "undo"
    /\ pre.history # <<>>
    /\ ~pre.halted
    /\ step(machine, pre).ret = "True"
    /\ Contents(step(machine, pre).tm.tape) # Contents(pre.tape)
    /\ Observable(tm) = Observable(pre)

\* C2: a step() that finds no rule for (state, symbol under the head)
\* returns False, leaves tape, head and step count as they were, and halts
\* the engine, accepted iff the state is final.
C2_NoRuleStep ==
    (op = "step" /\ ~HasRule(machine, pre))
        => /\ ret = "False"
           /\ tm.tape = pre.tape
           /\ tm.head = pre.head
           /\ tm.steps = pre.steps
           /\ tm.state = pre.state
           /\ tm.halted
           /\ tm.accepted <=> (pre.state \in FinalStates(machine))

C2_Witness ==
    /\ op = "step"
    /\ ~HasRule(machine, pre)
    /\ ~pre.halted
    /\ pre.steps > 0
    /\ ret = "False"
    /\ tm.halted /\ ~tm.accepted

\* C3: when the current state is final and a rule exists for (state,
\* symbol under the head), run applies that rule instead of reporting
\* acceptance.
C3_FinalStateRuleFollowed ==
    (bop = "run" /\ budget >= 1 /\ bpre.state \in FinalStates(machine)
                 /\ MainHasRule(machine, bpre))
        => batch.step_count > bpre.step_count

\* C4: a run whose max_steps-th applied transition enters a final state
\* reports Accepted, not Unknown.
C4_LastStepIntoFinalAccepted ==
    (bop = "run" /\ budget >= 1
                 /\ batch.step_count = bpre.step_count + budget
                 /\ batch.state \in FinalStates(machine))
        => result = <<"True", batch.state>>

\* C5: no entry of the tape store holds the blank symbol.
C5_NoBlankStored == \A i \in DOMAIN tm.tape : tm.tape[i] # Blank

\* C6: on the same description and input, the batch run with a sufficient
\* budget and the interactive engine stepped until halted end with the same
\* verdict, final state, tape, head and step count.
C6_SameOutcome ==
    (tm.halted /\ bop = "run")
        => /\ result[1] = (IF tm.accepted THEN "True" ELSE "False")
           /\ result[2] = tm.state
           /\ batch.state = tm.state
           /\ Contents(batch.tape) = Contents(tm.tape)
           /\ batch.head = tm.head
           /\ batch.step_count = tm.steps

IsAnBn(s) ==
    \E n \in 0..Len(s) :
        /\ Len(s) = 2 * n
        /\ \A i \in 1..n : s[i] = "a" /\ s[n + i] = "b"

\* C7: the machine "a^n b^n", on an input over {a, b}, halts accepted iff
\* the input is a^n b^n for some n >= 0.
C7_AnBnLanguage ==
    (machine = "a^n b^n" /\ OverAlphabet(input, machine) /\ tm.halted)
        => (tm.accepted <=> IsAnBn(input))

Ones(s) == Cardinality({i \in 1..Len(s) : s[i] = "1"})

\* C8: the parity machine, run from construction on an input over {0, 1}
\* with a sufficient budget, ends Accepted iff the input holds an even
\* number of 1s, Rejected otherwise, after exactly len(input) + 1 applied
\* transitions.
C8_Parity ==
    (/\ machine = "Even number of 1s"
     /\ OverAlphabet(input, machine)
     /\ bop = "run"
     /\ bpre = MainConstruct(machine, input)
     /\ budget >= Len(input) + 2)
        => /\ result[1] = (IF Ones(input) % 2 = 0 THEN "True" ELSE "False")
           /\ result[2] = (IF Ones(input) % 2 = 0 THEN "q_accept" ELSE "q_reject")
           /\ batch.step_count = Len(input) + 1

C8_Witness ==
    /\ machine = "Even number of 1s"
    /\ input = <<"1", "1">>
    /\ bop = "run"
    /\ bpre = MainConstruct(machine, input)
    /\ result = <<"True", "q_accept">>
    /\ batch.step_count = 3

\* C9: reset(input) from any state leaves exactly the configuration of a
\* fresh engine on that input, with an empty history, and an undo issued
\* right after it changes nothing.
C9_ResetIsFresh ==
    (op = "reset" \/ (op0 = "reset" /\ op = "undo"))
        => tm = [state |-> InitialState(machine), tape |-> TapeOf(input),
                 head |-> 0, steps |-> 0, halted |-> FALSE,
                 accepted |-> FALSE, history |-> <<>>]

C9_Witness ==
    /\ op0 = "step" /\ op = "reset"
    /\ input # <<>>

\* C10: undo() on an empty history returns False and changes nothing.
C10_EmptyUndo ==
    [][(op' = "undo" /\ tm.history = <<>>) => (ret' = "False" /\ tm' = tm)]_vars

\* the part of C10 the code does implement: nothing changes
C10_EmptyUndoChangesNothing ==
    [][(op' = "undo" /\ tm.history = <<>>) => (ret' = None /\ tm' = tm)]_vars

\* C11: run(0) applies no transition, leaves state, tape, head and step
\* count as they were, and returns Unknown or the engine's current status.
C11_RunZero ==
    (bop = "run" /\ budget = 0)
        => /\ batch = bpre
           /\ \/ result = <<"False", None>>
              \/ batch.state \in FinalStates(machine)
                    /\ result = <<"True", batch.state>>
              \/ batch.state \notin FinalStates(machine)
                    /\ ~MainHasRule(machine, batch)
                    /\ result = <<"False", batch.state>>

C11_Witness ==
    /\ bop = "run" /\ budget = 0
    /\ batch.step_count > 0
    /\ MainHasRule(machine, batch)
    /\ batch.state \notin FinalStates(machine)
    /\ result = <<"False", None>>

\* the window C12 describes, from the stored keys, the head and the padding
Low(b, padding) ==
    (IF DOMAIN b.tape = {} THEN Min(0, b.head)
     ELSE Min(b.head, MinOf(DOMAIN b.tape))) - padding

High(b, padding) ==
    (IF DOMAIN b.tape = {} THEN Max(0, b.head)
     ELSE Max(b.head, MaxOf(DOMAIN b.tape))) + padding

C13_StepRunTotal ==
    /\ bop = "step" => result \in {"True", "False"}
    /\ bop = "run" => result[1] \in {"True", "False"}
    /\ (bop = "step" /\ batch # bpre) => batch.step_count = bpre.step_count + 1

\* the description satisfies what construction is said to check
WellFormed(m) ==
    LET d == Unchecked[m]
    IN  /\ d.initial \in d.states
        /\ d.final \subseteq d.states
        /\ Blank \notin d.alphabet
        /\ \A key \in DOMAIN d.transitions :
              /\ key[1] \in d.states
              /\ key[2] \in d.tape_symbols
              /\ d.transitions[key][1] \in d.states
              /\ d.transitions[key][2] \in d.tape_symbols

\* C14: a description with a transition that references a state outside
\* states or a symbol outside tape_symbols, or whose initial or final states
\* are not among states, or whose input alphabet holds the blank, yields no
\* engine: no engine built from it is ever stepped or run.
C14_MalformedNeverExecuted ==
    (bop \in {"step", "run"}) => WellFormed(machine)

\* what the step from t to u did to the tape, state, head and step count,
\* given the rule it applied
Applied(t, u, rule) ==
    /\ Contents(u.tape) = [Contents(t.tape) EXCEPT ![t.head] = rule[2]]
    /\ u.state = rule[1]
    /\ u.head = t.head + (IF rule[3] = "L" THEN 0 - 1
                          ELSE IF rule[3] = "R" THEN 1 ELSE 0)
    /\ u.steps = t.steps + 1

\* the step calls since the last reset, undone ones left out, that
\* returned true
TrueCalls == {i \in 1..Len(calls) : calls[i] = "True"}

C16_HaltedStable ==
    (op = "step" /\ pre.halted) => (ret = "False" /\ tm = pre)

\* step() was called on an engine halted in a state and on a symbol that
\* have a rule
C16_Witness ==
    /\ op = "step" /\ pre.halted /\ HasRule(machine, pre)
    /\ tm.history # <<>>

\* the configuration k step() calls after the last reset
RECURSIVE Visited(_)
Visited(k) ==
    IF k = 0 THEN reset(machine, Construct(machine), input)
    ELSE step(machine, Visited(k - 1)).tm

\* C17: the history is the stack of the configurations the steps since the
\* last reset started from, oldest at the bottom: entry i is the
\* configuration (state, tape, head, step count, halted, accepted) before
\* the i-th of these steps, whatever undos and later steps happened in
\* between, and an undo leaves the engine in the configuration of the entry
\* it popped, so k undos after k steps from x0 restore x(k-1), ..., x0.
C17_HistoryLIFO ==
    /\ \A i \in 1..Len(tm.history) : tm.history[i] = snapshot(Visited(i - 1))
    /\ op = "undo" => snapshot(tm) = snapshot(Visited(Len(tm.history)))

\* two undos in a row, after at least three steps, with a changed tape
C17_Witness ==
    /\ op = "undo" /\ op0 = "undo"
    /\ Len(tm.history) > 0
    /\ tm.tape # TapeOf(input)

\* the engine is halted because its last step() not undone found no rule
HaltedOnMissingRule ==
    tm.halted /\ calls # <<>> /\ calls[Len(calls)] = "False"

\* C18: every history entry records a configuration that is not halted;
\* the entry at index k from the bottom, counted from 0 as the list is
\* indexed, records step count k; the depth of the stack is the step count
\* when the engine is running or halted by entering a final state, and the
\* step count plus one exactly when it halted on a missing rule; an undo
\* right after such a halt gives back the state, tape, head and step count
\* the halting step left untouched, not halted.
C18_HistoryShape ==
    /\ \A k \in 0..(Len(tm.history) - 1) :
          /\ ~tm.history[k + 1].halted
          /\ tm.history[k + 1].steps = k
    /\ Len(tm.history) = tm.steps + (IF HaltedOnMissingRule THEN 1 ELSE 0)
    /\ (op = "undo" /\ op0 = "step" /\ ~pre.halted /\ ~HasRule(machine, pre))
          => /\ ~tm.halted
             /\ Observable(tm) = Observable(pre)
             /\ Len(tm.history) = tm.steps

\* an undo right after a halt on a missing rule, some steps into the run
C18_Witness ==
    /\ op = "undo" /\ op0 = "step" /\ ~pre.halted /\ ~HasRule(machine, pre)
    /\ tm.steps > 1

\* C19: at most one run callback is pending at any time, and while Reset
\* is the last button pressed the engine stays in its initial configuration
\* (step count 0, empty history): no pending callback steps it.
C19_RunChainSafe ==
    /\ pending <= 1
    /\ button = "reset" => (tm.steps = 0 /\ tm.history = <<>>)

\* C20: each of the two machines of the registry, on any input over its
\* input alphabet, eventually halts when it is stepped again and again, and
\* a batch run with a budget no shorter than its run never reports Unknown.
C20_BundledMachinesHalt ==
    (machine \in MACHINES /\ OverAlphabet(input, machine))
        => /\ <>(tm.halted)
           /\ [](bop = "run" => result[2] # None)

\* "a^n b^n" came to a halt on an input of four letters or more after
\* walking back and forth, and the batch run gave its verdict
C20_Witness ==
    /\ machine = "a^n b^n" /\ OverAlphabet(input, machine) /\ Len(input) >= 4
    /\ tm.halted /\ tm.steps > Len(input) + 1
    /\ bop = "run" /\ result[2] # None

====
